---- MODULE Spec2Model ----
(***************************************************************************)
(* A model of giraffics: the canvas and its coordinate conversions, the    *)
(* render loop of Scene, the scene-description lexer and the recursive     *)
(* descent parser with its per-kind validation of definitions.             *)
(*                                                                         *)
(* The module holds several specifications over one set of variables:      *)
(*   SpecRender    Scene::render over a canvas and a frame buffer          *)
(*   SpecPut       single Canvas::put_pixel calls with arbitrary inputs    *)
(*   SpecValidate  Definition::from_raw over raw definitions               *)
(*   SpecParse     Parser::parse over a token buffer                       *)
(*   SpecLex       the Token lexer over a text                             *)
(* A specification leaves the variables of the other parts at their idle   *)
(* values.                                                                 *)
(***************************************************************************)
EXTENDS Integers, Sequences, FiniteSets, TLC

(***************************************************************************)
(* Bounds of the model.                                                    *)
(***************************************************************************)
\* canvas width and height range over 1..MaxDim
MaxDim == 3
\* viewport width, height and depth range over 1..MaxViewport
MaxViewport == 2
\* put_pixel is called with canvas coordinates in -MaxCoord..MaxCoord
MaxCoord == 2
\* a raw definition handed to from_raw has 1..MaxAssign assignments
MaxAssign == 4
\* the token buffer of the parser holds at most MaxTokens tokens
MaxTokens == 14
\* the longest source text the lexer is run on
MaxText == 5
\* Color::scale is called with scalars 0, 1/ScalarDen, ..., MaxScalar/ScalarDen
MaxScalar == 10
\* a scene has at most MaxLights lights
MaxLights == 2
\* a scene has at most MaxSpheres spheres
MaxSpheres == 2
\* the iterator is taken of canvases of width and height in 1..MaxIterDim
MaxIterDim == 5
\* next is called up to MaxNones times after it has returned None
MaxNones == 2

VARIABLES
    \* ---- canvas, scene and frame buffer
    width,           \* Canvas.width
    height,          \* Canvas.height
    viewport,        \* Scene.viewport: [width, height, depth]
    frame,           \* the frame buffer: a function from 0..len-1 to bytes
    writes,          \* history: how often each pixel slot has been written
    iter,            \* EachCanvasCoordinate of the running render
    coord,           \* the canvas coordinate of the last step
    viewport_coord,  \* render's local viewport_coord
    screen_coord,    \* put_pixel's local screen_coord
    color,           \* the color of the last put_pixel
    panicked,        \* a slice index was out of range
    rpc,             \* position of render / put_pixel: idle, loop, done, put
    \* ---- Definition::from_raw
    raw,             \* the RawDefinition handed to from_raw
    vresult,         \* what from_raw returned
    vpc,             \* idle, done
    \* ---- Parser
    src,             \* Parser.src, as far as the cursor has reached it
    eof,             \* src ends where it is known to
    position,        \* Parser.position
    definitions,     \* parse's local definitions (raw)
    def_type,        \* parse_raw_definition's local def_type
    assignments,     \* parse_raw_definition's local assignments
    name,            \* parse_assignment's local name
    value,           \* parse_assignment's local value
    nums,            \* parse_tuple's locals num1, num2, num3, as far as read
    validated,       \* history: parse has reached from_raw
    result,          \* what parse returned
    ppc,             \* the position of the parser in its code
    \* ---- Token::lexer
    text,            \* the source text: a sequence of characters
    lpos,            \* the number of characters lexed
    tokens,          \* the tokens the lexer has returned
    spans,           \* history: the slice of each token
    lpc,             \* idle, lexing, done
    \* ---- Color::scale
    scale_self,      \* the color scale is called on
    scalar,          \* its argument
    scale_result,    \* what it returned
    spc,             \* idle, done
    \* ---- Scene::trace_ray, Sphere::intersect_ray, Scene::compute_lighting
    camera_position, \* Scene.camera_position
    spheres,         \* Scene.spheres
    lights,          \* Scene.lights
    background_color,\* Scene.background_color
    ray,             \* trace_ray's argument viewport_coord
    t_min,           \* trace_ray's argument t_min
    t_max,           \* trace_ray's argument t_max
    closest_t,       \* trace_ray's local closest_t
    closest_sphere,  \* trace_ray's local closest_sphere: None or Some(index)
    sphere_i,        \* the number of spheres the loop of trace_ray has taken
    roots,           \* what intersect_ray returned last: <<t1, t2>>
    point,           \* trace_ray's local point, compute_lighting's argument
    normal,          \* trace_ray's local normal, compute_lighting's argument
    light_intensity, \* what compute_lighting returned
    traced,          \* what trace_ray returned
    tpc,             \* idle, loop, match, done
    \* ---- EachCanvasCoordinate as an iterator of its own
    yielded,         \* history: the coordinates next has returned
    nones,           \* history: how often next has returned None
    ipc              \* idle, next

canvasVars == <<width, height, viewport, frame, writes, iter, coord,
                viewport_coord, screen_coord, color, panicked, rpc>>

validateVars == <<raw, vresult, vpc>>

parseVars == <<src, eof, position, definitions, def_type, assignments, name,
               value, nums, validated, result, ppc>>

lexVars == <<text, lpos, tokens, spans, lpc>>

scaleVars == <<scale_self, scalar, scale_result, spc>>

traceVars == <<camera_position, spheres, lights, background_color, ray, t_min,
               t_max, closest_t, closest_sphere, sphere_i, roots, point, normal,
               light_intensity, traced, tpc>>

iterVars == <<yielded, nones, ipc>>

vars == <<canvasVars, validateVars, parseVars, lexVars, scaleVars, traceVars,
          iterVars>>

otherThanCanvas == <<validateVars, parseVars, lexVars, scaleVars, traceVars, iterVars>>
otherThanValidate == <<canvasVars, parseVars, lexVars, scaleVars, traceVars, iterVars>>
otherThanParse == <<canvasVars, validateVars, lexVars, scaleVars, traceVars, iterVars>>
otherThanLex == <<canvasVars, validateVars, parseVars, scaleVars, traceVars, iterVars>>
otherThanScale == <<canvasVars, validateVars, parseVars, lexVars, traceVars, iterVars>>
otherThanTrace == <<canvasVars, validateVars, parseVars, lexVars, scaleVars, iterVars>>
otherThanIter == <<validateVars, parseVars, lexVars, scaleVars, traceVars>>

(***************************************************************************)
(* Colors (color.rs): four bytes, RGBA.                                    *)
(***************************************************************************)
RED == <<255, 0, 0, 255>>
GREEN == <<0, 255, 0, 255>>
Colors == {RED, GREEN}

NoCoord == [x |-> 0, y |-> 0]
OffScreen == [tag |-> "OffScreen"]
OnScreen(x, y) == [tag |-> "OnScreen", x |-> x, y |-> y]

(***************************************************************************)
(* Exact rationals stand for the f64 values of world coordinates: a        *)
(* rational is a pair <<numerator, denominator>> in lowest terms with a    *)
(* positive denominator.                                                   *)
(***************************************************************************)
Abs(n) == IF n < 0 THEN -n ELSE n

RECURSIVE GCD(_, _)
GCD(a, b) == IF b = 0 THEN a ELSE GCD(b, a % b)

Rat(n, d) ==
    LET g == GCD(Abs(n), Abs(d))
        s == IF d < 0 THEN -1 ELSE 1
    IN  <<(s * n) \div g, (s * d) \div g>>

\* a * (b / c) over the rationals
MulDiv(a, b, c) == Rat(a * b, c)

\* f64::INFINITY
Inf == <<1, 0>>

Zero == Rat(0, 1)

(***************************************************************************)
(* canvas.rs                                                               *)
(***************************************************************************)
CanvasWidth(c) == c.width

\* Canvas::height returns the width field
CanvasHeight(c) == c.width

TheCanvas == [width |-> width, height |-> height]

iter_pixels(c) ==
    LET max_x == c.width \div 2
        max_y == c.height \div 2
    IN  [max_x |-> max_x, min_x |-> -max_x, max_y |-> max_y,
         finished |-> FALSE, next_x |-> -max_x, next_y |-> -max_y]

\* EachCanvasCoordinate::next on an unfinished iterator: the iterator after it
IterAdvance(it) ==
    LET nx == it.next_x + 1
    IN  IF nx >= it.max_x
        THEN [it EXCEPT !.next_x = it.min_x,
                        !.next_y = it.next_y + 1,
                        !.finished = (it.next_y + 1 >= it.max_y)]
        ELSE [it EXCEPT !.next_x = nx]

IterItem(it) == [x |-> it.next_x, y |-> it.next_y]

\* mutant: the upper bounds are inclusive
out_of_bounds_inclusive(x, y, w, h) == x < 0 \/ y < 0 \/ x > w \/ y > h

out_of_bounds(x, y, w, h) == x < 0 \/ y < 0 \/ x >= w \/ y >= h

\* Converts<CanvasCoordinate, ScreenCoordinate> for Canvas
ConvertCanvasToScreen(c, cc) ==
    LET x == (c.width \div 2) + cc.x
        y == (c.height \div 2) - cc.y
    IN  IF out_of_bounds(x, y, c.width, c.height)
        THEN OffScreen
        ELSE OnScreen(x, y)

FrameLen(f) == Cardinality(DOMAIN f)

pixel_index(c, sc) == (sc.y * c.width + sc.x) * 4

\* Canvas::put_pixel panics when the slice pixel_index..pixel_index+4 is out of range
PutPixelPanics(c, f, cc) ==
    LET sc == ConvertCanvasToScreen(c, cc)
    IN  sc.tag = "OnScreen" /\ pixel_index(c, sc) + 4 > FrameLen(f)

\* mutant: the row stride is the height
PutPixelHeightStride(c, f, cc, col) ==
    LET sc == ConvertCanvasToScreen(c, cc)
    IN  IF sc.tag = "OnScreen" /\ ~PutPixelPanics(c, f, cc)
        THEN LET pi == (sc.y * c.height + sc.x) * 4
             IN  [i \in DOMAIN f |->
                    IF pi <= i /\ i < pi + 4 THEN col[i - pi + 1] ELSE f[i]]
        ELSE f

\* Canvas::put_pixel: the frame after the call
PutPixel(c, f, cc, col) ==
    LET sc == ConvertCanvasToScreen(c, cc)
    IN  IF sc.tag = "OnScreen" /\ ~PutPixelPanics(c, f, cc)
        THEN LET pi == pixel_index(c, sc)
             IN  [i \in DOMAIN f |->
                    IF pi <= i /\ i < pi + 4 THEN col[i - pi + 1] ELSE f[i]]
        ELSE f

\* history of the pixel slots written: slot s holds bytes 4s..4s+3
CountWrite(c, f, cc, w) ==
    LET sc == ConvertCanvasToScreen(c, cc)
    IN  IF sc.tag = "OnScreen" /\ ~PutPixelPanics(c, f, cc)
        THEN LET s == pixel_index(c, sc) \div 4
             IN  [w EXCEPT ![s] = @ + 1]
        ELSE w

(***************************************************************************)
(* scene.rs                                                                *)
(***************************************************************************)
\* Converts<CanvasCoordinate, WorldCoordinate> for Scene
ConvertCanvasToWorld(vp, c, cc) ==
    [x |-> MulDiv(cc.x, vp.width, CanvasWidth(c)),
     y |-> MulDiv(cc.y, vp.height, CanvasHeight(c)),
     z |-> Rat(vp.depth, 1)]

NoWorld == [x |-> Rat(0, 1), y |-> Rat(0, 1), z |-> Rat(0, 1)]

(***************************************************************************)
(* lang/parser.rs: values, definitions and results.                        *)
(*                                                                         *)
(* A string is the sequence of its chunks: Str("width") is one chunk, the  *)
(* slice of a quoted string is the quote, the body and the quote. A field  *)
(* of type Option<T>, and a field a variant does not have, is a sequence   *)
(* of length 0 or 1. A message is the format string of the format! call    *)
(* with its arguments.                                                     *)
(***************************************************************************)
\* An f64 a number literal denotes is the decimal m * 10^e, m not a multiple
\* of 10 unless it is 0.
RECURSIVE F64(_, _)
F64(m, e) ==
    IF m = 0 THEN [m |-> 0, e |-> 0]
    ELSE IF m % 10 = 0 THEN F64(m \div 10, e + 1)
    ELSE [m |-> m, e |-> e]

NoNumber == F64(0, 0)
One == F64(1, 0)

Str(w) == <<w>>
Quote == "\""

None == <<>>
Some(v) == <<v>>

NoValue == [kind |-> "None", n |-> NoNumber, s |-> <<>>, t |-> <<>>]
Num(n) == [kind |-> "Num", n |-> n, s |-> <<>>, t |-> <<>>]
VString(s) == [kind |-> "VString", n |-> NoNumber, s |-> s, t |-> <<>>]
Tuple(t) == [kind |-> "Tuple", n |-> NoNumber, s |-> <<>>, t |-> t]

NoToken == [t |-> "None", s |-> <<>>, n |-> NoNumber]

\* lang/lexer.rs: Token
Identifier(s) == [t |-> "Identifier", s |-> s, n |-> NoNumber]
Number(n) == [t |-> "Number", s |-> <<>>, n |-> n]
VStringTok(s) == [t |-> "VString", s |-> s, n |-> NoNumber]
NewLine == [t |-> "NewLine", s |-> <<>>, n |-> NoNumber]
Equal == [t |-> "Equal", s |-> <<>>, n |-> NoNumber]
Comma == [t |-> "Comma", s |-> <<>>, n |-> NoNumber]
LParen == [t |-> "LParen", s |-> <<>>, n |-> NoNumber]
RParen == [t |-> "RParen", s |-> <<>>, n |-> NoNumber]
LBrace == [t |-> "LBrace", s |-> <<>>, n |-> NoNumber]
RBrace == [t |-> "RBrace", s |-> <<>>, n |-> NoNumber]
Error == [t |-> "Error", s |-> <<>>, n |-> NoNumber]

Msg(fmt, args, val, tok) == [fmt |-> fmt, args |-> args, val |-> val, tok |-> tok]
NoMsg == Msg("", <<>>, NoValue, NoToken)

Ok(v) == [ok |-> TRUE, v |-> <<v>>, err |-> NoMsg]
Err(m) == [ok |-> FALSE, v |-> <<>>, err |-> m]
Unwrap(r) == r.v[1]

NoDefinition ==
    [def |-> "", intensity |-> <<>>, position |-> <<>>, direction |-> <<>>,
     color |-> <<>>, center |-> <<>>, radius |-> <<>>,
     title |-> <<>>, width |-> <<>>, height |-> <<>>]

Window(title, w, h) ==
    [NoDefinition EXCEPT !.def = "Window", !.title = title, !.width = w, !.height = h]
AmbientLight(intensity) ==
    [NoDefinition EXCEPT !.def = "AmbientLight", !.intensity = <<intensity>>]
PointLight(intensity, position_) ==
    [NoDefinition EXCEPT !.def = "PointLight", !.intensity = <<intensity>>,
                         !.position = <<position_>>]
DirectionLight(intensity, direction) ==
    [NoDefinition EXCEPT !.def = "DirectionLight", !.intensity = <<intensity>>,
                         !.direction = <<direction>>]
Sphere(color_, center, radius) ==
    [NoDefinition EXCEPT !.def = "Sphere", !.color = <<color_>>,
                         !.center = <<center>>, !.radius = <<radius>>]

Assignment(name_, value_) == [name |-> name_, value |-> value_]
RawDefinition(def_type_, assignments_) ==
    [def_type |-> def_type_, assignments |-> assignments_]

numeric_value(value_, property) ==
    IF value_.kind = "Num"
    THEN Ok(value_.n)
    ELSE Err(Msg("Expected number for property {} but got {:?}",
                 <<property>>, value_, NoToken))

string_value(value_, property) ==
    IF value_.kind = "VString"
    THEN Ok(value_.s)
    ELSE Err(Msg("Expected string for property {} but got {:?}",
                 <<property>>, value_, NoToken))

tuple_value(value_, property) ==
    IF value_.kind = "Tuple"
    THEN Ok(value_.t)
    ELSE Err(Msg("Expected tuple for property {} but got {:?}",
                 <<property>>, value_, NoToken))

\* Definition::window_from_raw: the loop from assignment i on
RECURSIVE window_loop(_, _, _, _, _)
window_loop(as, i, title, w, h) ==
    IF i > Len(as)
    THEN Ok(Window(title, w, h))
    ELSE LET a == as[i]
         IN  CASE a.name = Str("width") ->
                    LET r == numeric_value(a.value, Str("width"))
                    IN  IF r.ok THEN window_loop(as, i + 1, title, Some(Unwrap(r)), h)
                        ELSE Err(r.err)
               [] a.name = Str("height") ->
                    LET r == numeric_value(a.value, Str("height"))
                    IN  IF r.ok THEN window_loop(as, i + 1, title, w, Some(Unwrap(r)))
                        ELSE Err(r.err)
               [] a.name = Str("title") ->
                    LET r == string_value(a.value, Str("title"))
                    IN  IF r.ok THEN window_loop(as, i + 1, Some(Unwrap(r)), w, h)
                        ELSE Err(r.err)
               [] OTHER ->
                    Err(Msg("Expected properties: [width, height, title] but got: '{}'",
                            <<a.name>>, NoValue, NoToken))

window_from_raw(r) == window_loop(r.assignments, 1, None, None, None)

\* mutant: a point light is not refused for its direction
light_match_point_keeps_direction(light_type, intensity, position_, direction) ==
    IF light_type = None \/ intensity = None
    THEN Err(Msg("light definitions require a type and an intensity",
                 <<>>, NoValue, NoToken))
    ELSE CASE light_type[1] = Str("ambient") ->
                IF position_ # None \/ direction # None
                THEN Err(Msg("Only type and intensity are supported for ambient lights",
                             <<>>, NoValue, NoToken))
                ELSE Ok(AmbientLight(intensity[1]))
           [] light_type[1] = Str("point") ->
                IF position_ = None
                THEN Err(Msg("point lights require a position", <<>>, NoValue, NoToken))
                ELSE Ok(PointLight(intensity[1], position_[1]))
           [] light_type[1] = Str("directional") ->
                IF direction = None
                THEN Err(Msg("directional lights require a direction",
                             <<>>, NoValue, NoToken))
                ELSE IF position_ # None
                THEN Err(Msg("directional lights do not support the position property",
                             <<>>, NoValue, NoToken))
                ELSE Ok(DirectionLight(intensity[1], direction[1]))
           [] OTHER ->
                Err(Msg("Unsupported light type: {}", <<light_type[1]>>, NoValue, NoToken))

\* Definition::light_from_raw after its loop: the checks on what was collected
light_match(light_type, intensity, position_, direction) ==
    IF light_type = None \/ intensity = None
    THEN Err(Msg("light definitions require a type and an intensity",
                 <<>>, NoValue, NoToken))
    ELSE CASE light_type[1] = Str("ambient") ->
                IF position_ # None \/ direction # None
                THEN Err(Msg("Only type and intensity are supported for ambient lights",
                             <<>>, NoValue, NoToken))
                ELSE Ok(AmbientLight(intensity[1]))
           [] light_type[1] = Str("point") ->
                IF position_ = None
                THEN Err(Msg("point lights require a position", <<>>, NoValue, NoToken))
                ELSE IF direction # None
                THEN Err(Msg("point lights do not support the direction property",
                             <<>>, NoValue, NoToken))
                ELSE Ok(PointLight(intensity[1], position_[1]))
           [] light_type[1] = Str("directional") ->
                IF direction = None
                THEN Err(Msg("directional lights require a direction",
                             <<>>, NoValue, NoToken))
                ELSE IF position_ # None
                THEN Err(Msg("directional lights do not support the position property",
                             <<>>, NoValue, NoToken))
                ELSE Ok(DirectionLight(intensity[1], direction[1]))
           [] OTHER ->
                Err(Msg("Unsupported light type: {}", <<light_type[1]>>, NoValue, NoToken))

\* Definition::light_from_raw: the loop from assignment i on, then the checks
RECURSIVE light_loop(_, _, _, _, _, _)
light_loop(as, i, light_type, intensity, position_, direction) ==
    IF i > Len(as)
    THEN light_match(light_type, intensity, position_, direction)
    ELSE LET a == as[i]
         IN  CASE a.name = Str("type") ->
                    LET r == string_value(a.value, Str("type"))
                    IN  IF r.ok
                        THEN light_loop(as, i + 1, Some(Unwrap(r)), intensity,
                                        position_, direction)
                        ELSE Err(r.err)
               [] a.name = Str("intensity") ->
                    LET r == numeric_value(a.value, Str("intensity"))
                    IN  IF r.ok
                        THEN light_loop(as, i + 1, light_type, Some(Unwrap(r)),
                                        position_, direction)
                        ELSE Err(r.err)
               [] a.name = Str("position") ->
                    LET r == tuple_value(a.value, Str("position"))
                    IN  IF r.ok
                        THEN light_loop(as, i + 1, light_type, intensity,
                                        Some(Unwrap(r)), direction)
                        ELSE Err(r.err)
               [] a.name = Str("direction") ->
                    LET r == tuple_value(a.value, Str("direction"))
                    IN  IF r.ok
                        THEN light_loop(as, i + 1, light_type, intensity,
                                        position_, Some(Unwrap(r)))
                        ELSE Err(r.err)
               [] OTHER ->
                    Err(Msg("Expected properties: [type, intensity, position, direction] but got: '{}'",
                            <<a.name>>, NoValue, NoToken))

light_from_raw(r) == light_loop(r.assignments, 1, None, None, None, None)

\* mutant: a sphere without a radius is accepted with radius 1
sphere_match_default_radius(color_, center, radius) ==
    IF color_ = None \/ center = None
    THEN Err(Msg("Sphere definitions require [color, center, radius] but some values are missing",
                 <<>>, NoValue, NoToken))
    ELSE Ok(Sphere(color_[1], center[1], IF radius = None THEN One ELSE radius[1]))

\* Definition::sphere_from_raw after its loop
sphere_match(color_, center, radius) ==
    IF color_ = None \/ center = None \/ radius = None
    THEN Err(Msg("Sphere definitions require [color, center, radius] but some values are missing",
                 <<>>, NoValue, NoToken))
    ELSE Ok(Sphere(color_[1], center[1], radius[1]))

\* Definition::sphere_from_raw: the loop from assignment i on, then the check
RECURSIVE sphere_loop(_, _, _, _, _)
sphere_loop(as, i, color_, center, radius) ==
    IF i > Len(as)
    THEN sphere_match(color_, center, radius)
    ELSE LET a == as[i]
         IN  CASE a.name = Str("color") ->
                    LET r == tuple_value(a.value, Str("color"))
                    IN  IF r.ok THEN sphere_loop(as, i + 1, Some(Unwrap(r)), center, radius)
                        ELSE Err(r.err)
               [] a.name = Str("center") ->
                    LET r == tuple_value(a.value, Str("center"))
                    IN  IF r.ok THEN sphere_loop(as, i + 1, color_, Some(Unwrap(r)), radius)
                        ELSE Err(r.err)
               [] a.name = Str("radius") ->
                    LET r == numeric_value(a.value, Str("radius"))
                    IN  IF r.ok THEN sphere_loop(as, i + 1, color_, center, Some(Unwrap(r)))
                        ELSE Err(r.err)
               [] OTHER ->
                    Err(Msg("Expected properties: [color, center, radius] but got: '{}'",
                            <<a.name>>, NoValue, NoToken))

sphere_from_raw(r) == sphere_loop(r.assignments, 1, None, None, None)

\* mutant: a definition of an unknown kind is read as a window
from_raw_unknown_kind_as_window(r) ==
    CASE r.def_type = Str("light") -> light_from_raw(r)
      [] r.def_type = Str("sphere") -> sphere_from_raw(r)
      [] OTHER -> window_from_raw(r)

\* Definition::from_raw
from_raw(r) ==
    CASE r.def_type = Str("window") -> window_from_raw(r)
      [] r.def_type = Str("light") -> light_from_raw(r)
      [] r.def_type = Str("sphere") -> sphere_from_raw(r)
      [] OTHER -> Err(Msg("Unsupported definition type: {}", <<r.def_type>>,
                          NoValue, NoToken))

\* definitions.into_iter().map(from_raw).collect(): the first Err, or all the
\* definitions
RECURSIVE collect_from_raw(_, _, _)
collect_from_raw(defs, i, acc) ==
    IF i > Len(defs)
    THEN Ok(acc)
    ELSE LET r == from_raw(defs[i])
         IN  IF r.ok THEN collect_from_raw(defs, i + 1, Append(acc, Unwrap(r)))
             ELSE Err(r.err)

BlankFrame(w, h) == [i \in 0 .. (w * h * 4 - 1) |-> 0]
NoWrites(w, h) == [s \in 0 .. (w * h - 1) |-> 0]

(***************************************************************************)
(* lang/parser.rs: Parser.                                                 *)
(***************************************************************************)
\* Parser::peek, and the token Parser::next returns
peek(src_, position_) ==
    IF position_ >= Len(src_) THEN None ELSE Some(src_[position_ + 1])

\* mutant: next returns the token and leaves the cursor where it is
next_position_stays(src_, position_) == position_

\* Parser::next: the cursor after it
next_position(src_, position_) ==
    IF position_ >= Len(src_) THEN position_ ELSE position_ + 1

\* mutant: an Error token is skipped like a newline
munches_error_too(tok) == tok \in {Some(NewLine), Some(Error)}

\* the pattern of munch_newlines: while let Some(Token::NewLine) = self.peek()
munches(tok) == tok = Some(NewLine)

\* Parser::expect on the token next() returned
expect(tok, expected, failed_match) ==
    IF tok = None
    THEN Err(Msg("Expected {:?} but got EOF", <<>>, NoValue, expected))
    ELSE IF tok[1] = expected
    THEN Ok(tok[1])
    ELSE Err(Msg("Error: {} on token {:?}", <<Str(failed_match)>>, NoValue, tok[1]))

expect_number(tok, err) ==
    IF tok = None
    THEN Err(Msg("Expected a number but got EOF", <<>>, NoValue, NoToken))
    ELSE IF tok[1].t = "Number"
    THEN Ok(tok[1].n)
    ELSE Err(Msg("Error: {} on token {:?}", <<Str(err)>>, NoValue, tok[1]))

expect_ident(tok, err) ==
    IF tok = None
    THEN Err(Msg("Expected an ident but got EOF", <<>>, NoValue, NoToken))
    ELSE IF tok[1].t = "Identifier"
    THEN Ok(tok[1].s)
    ELSE Err(Msg("Error: {} on token {:?}", <<Str(err)>>, NoValue, tok[1]))

\* src.trim_matches('"'): the chunks without the leading and the trailing quotes
RECURSIVE trim_start(_)
trim_start(s_) ==
    IF s_ # <<>> /\ Head(s_) = Quote THEN trim_start(Tail(s_)) ELSE s_

RECURSIVE trim_end(_)
trim_end(s_) ==
    IF s_ # <<>> /\ s_[Len(s_)] = Quote
    THEN trim_end(SubSeq(s_, 1, Len(s_) - 1))
    ELSE s_

strip_speechmarks(s_) == trim_end(trim_start(s_))

(***************************************************************************)
(* The raw definitions from_raw is called with: every kind, with the keys  *)
(* of the kind and a key of another kind, each with a value of the shape   *)
(* the key wants and one of another shape.                                 *)
(***************************************************************************)
WindowKeys == {Str("title"), Str("width"), Str("height")}
LightKeys == {Str("type"), Str("intensity"), Str("position"), Str("direction")}
SphereKeys == {Str("color"), Str("center"), Str("radius")}

KindsTried == {Str("window"), Str("light"), Str("sphere"), Str("foo")}

KeysTried(kind) ==
    CASE kind = Str("window") -> WindowKeys \cup {Str("radius")}
      [] kind = Str("light") -> LightKeys \cup {Str("radius")}
      [] kind = Str("sphere") -> SphereKeys \cup {Str("width")}
      [] OTHER -> {Str("foo")}

ATuple == <<F64(1, 0), F64(2, 0), F64(3, 0)>>

ValuesTried(key) ==
    CASE key = Str("type") ->
            {VString(Str("ambient")), VString(Str("point")),
             VString(Str("directional")), VString(Str("spot")), Num(One)}
      [] key = Str("title") -> {VString(Str("t")), Tuple(ATuple)}
      [] key \in {Str("intensity"), Str("width")} -> {Num(One), Tuple(ATuple)}
      [] key \in {Str("radius"), Str("height")} -> {Num(One), VString(Str("t"))}
      [] key \in {Str("position"), Str("color")} -> {Tuple(ATuple), Num(One)}
      [] key \in {Str("direction"), Str("center")} -> {Tuple(ATuple), VString(Str("t"))}
      [] OTHER -> {Num(One)}

AssignmentsTried(kind) ==
    UNION {{Assignment(k, v) : v \in ValuesTried(k)} : k \in KeysTried(kind)}

\* raw is one of the raw definitions tried
RawInput(r) ==
    \E kind \in KindsTried : \E m \in 1 .. MaxAssign :
        \E as \in [1 .. m -> AssignmentsTried(kind)] : r = RawDefinition(kind, as)

NoRawDefinition == RawDefinition(<<>>, <<>>)
NoResult == Err(NoMsg)

(***************************************************************************)
(* The idle values of each part.                                           *)
(***************************************************************************)
IdleCanvas ==
    /\ width = 1
    /\ height = 1
    /\ viewport = [width |-> 1, height |-> 1, depth |-> 1]
    /\ frame = BlankFrame(1, 1)
    /\ writes = NoWrites(1, 1)
    /\ iter = iter_pixels([width |-> 1, height |-> 1])
    /\ coord = NoCoord
    /\ viewport_coord = NoWorld
    /\ screen_coord = OffScreen
    /\ color = RED
    /\ panicked = FALSE
    /\ rpc = "idle"

IdleValidate ==
    /\ raw = NoRawDefinition
    /\ vresult = NoResult
    /\ vpc = "idle"

IdleParse ==
    /\ src = <<>>
    /\ eof = FALSE
    /\ position = 0
    /\ definitions = <<>>
    /\ def_type = <<>>
    /\ assignments = <<>>
    /\ name = <<>>
    /\ value = NoValue
    /\ nums = <<>>
    /\ validated = FALSE
    /\ result = NoResult
    /\ ppc = "idle"

IdleScale ==
    /\ scale_self = RED
    /\ scalar = Zero
    /\ scale_result = RED
    /\ spc = "idle"

IdleTrace ==
    /\ camera_position = NoWorld
    /\ spheres = <<>>
    /\ lights = <<>>
    /\ background_color = RED
    /\ ray = NoWorld
    /\ t_min = Zero
    /\ t_max = Inf
    /\ closest_t = Inf
    /\ closest_sphere = <<>>
    /\ sphere_i = 0
    /\ roots = <<Inf, Inf>>
    /\ point = NoWorld
    /\ normal = NoWorld
    /\ light_intensity = Zero
    /\ traced = RED
    /\ tpc = "idle"

IdleIter ==
    /\ yielded = <<>>
    /\ nones = 0
    /\ ipc = "idle"

\* the parts of the state no operation of the run works on
IdleShading == IdleScale /\ IdleTrace /\ IdleIter

IdleLex ==
    /\ text = <<>>
    /\ lpos = 0
    /\ tokens = <<>>
    /\ spans = <<>>
    /\ lpc = "idle"

InitCanvas ==
    /\ width \in 1 .. MaxDim
    /\ height \in 1 .. MaxDim
    /\ viewport \in [width : 1 .. MaxViewport, height : 1 .. MaxViewport,
                     depth : 1 .. MaxViewport]
    /\ frame = BlankFrame(width, height)
    /\ writes = NoWrites(width, height)
    /\ iter = iter_pixels([width |-> width, height |-> height])
    /\ coord = NoCoord
    /\ viewport_coord = NoWorld
    /\ screen_coord = OffScreen
    /\ color = RED
    /\ panicked = FALSE
    /\ rpc = "idle"
    /\ IdleValidate
    /\ IdleParse
    /\ IdleLex
    /\ IdleShading

\* Scene::render, entry: the for loop takes the iterator of the canvas
RenderBegin ==
    /\ rpc = "idle"
    /\ rpc' = "loop"
    /\ iter' = iter_pixels(TheCanvas)
    /\ UNCHANGED <<width, height, viewport, frame, writes, coord,
                   viewport_coord, screen_coord, color, panicked>>
    /\ UNCHANGED otherThanCanvas

\* Scene::render, one iteration of the loop body. The color trace_ray returns
\* is any color.
RenderStep ==
    /\ rpc = "loop"
    /\ ~iter.finished
    /\ \E col \in Colors :
         LET cc == IterItem(iter)
         IN  /\ coord' = cc
             /\ iter' = IterAdvance(iter)
             /\ viewport_coord' = ConvertCanvasToWorld(viewport, TheCanvas, cc)
             /\ color' = col
             /\ screen_coord' = ConvertCanvasToScreen(TheCanvas, cc)
             /\ panicked' = PutPixelPanics(TheCanvas, frame, cc)
             /\ frame' = PutPixel(TheCanvas, frame, cc, col)
             /\ writes' = CountWrite(TheCanvas, frame, cc, writes)
             /\ rpc' = IF PutPixelPanics(TheCanvas, frame, cc) THEN "done" ELSE "loop"
    /\ UNCHANGED <<width, height, viewport>>
    /\ UNCHANGED otherThanCanvas

\* Scene::render, exit: the iterator returns None
RenderEnd ==
    /\ rpc = "loop"
    /\ iter.finished
    /\ rpc' = "done"
    /\ UNCHANGED <<width, height, viewport, frame, writes, iter, coord,
                   viewport_coord, screen_coord, color, panicked>>
    /\ UNCHANGED otherThanCanvas

NextRender == RenderBegin \/ RenderStep \/ RenderEnd

SpecRender == InitCanvas /\ [][NextRender]_vars

\* what an earlier frame left in the buffer: no byte of it is a byte of Colors
UsedFrame(w, h) == [i \in 0 .. (w * h * 4 - 1) |-> (i % 7) + 1]

InitPut ==
    /\ width \in 1 .. MaxDim
    /\ height \in 1 .. MaxDim
    /\ viewport = [width |-> 1, height |-> 1, depth |-> 1]
    /\ frame \in {BlankFrame(width, height), UsedFrame(width, height)}
    /\ writes = NoWrites(width, height)
    /\ iter = iter_pixels([width |-> width, height |-> height])
    /\ coord = NoCoord
    /\ viewport_coord = NoWorld
    /\ screen_coord = OffScreen
    /\ color = RED
    /\ panicked = FALSE
    /\ rpc = "idle"
    /\ IdleValidate
    /\ IdleParse
    /\ IdleLex
    /\ IdleShading

\* One call of Canvas::put_pixel with any canvas coordinate and color
PutPixelCall ==
    /\ rpc = "idle"
    /\ \E x \in -MaxCoord .. MaxCoord, y \in -MaxCoord .. MaxCoord, col \in Colors :
         LET cc == [x |-> x, y |-> y]
         IN  /\ coord' = cc
             /\ color' = col
             /\ screen_coord' = ConvertCanvasToScreen(TheCanvas, cc)
             /\ panicked' = PutPixelPanics(TheCanvas, frame, cc)
             /\ frame' = PutPixel(TheCanvas, frame, cc, col)
             /\ writes' = CountWrite(TheCanvas, frame, cc, writes)
    /\ rpc' = "put"
    /\ UNCHANGED <<width, height, viewport, iter, viewport_coord>>
    /\ UNCHANGED otherThanCanvas

NextPut == PutPixelCall

SpecPut == InitPut /\ [][NextPut]_vars

(***************************************************************************)
(* Definition::from_raw on one raw definition.                             *)
(***************************************************************************)
InitValidate ==
    /\ IdleCanvas
    /\ IdleParse
    /\ IdleLex
    /\ IdleShading
    /\ RawInput(raw)
    /\ vresult = NoResult
    /\ vpc = "idle"

FromRawCall ==
    /\ vpc = "idle"
    /\ vresult' = from_raw(raw)
    /\ vpc' = "done"
    /\ UNCHANGED raw
    /\ UNCHANGED otherThanValidate

NextValidate == FromRawCall

SpecValidate == InitValidate /\ [][NextValidate]_vars

(***************************************************************************)
(* Parser::parse over a token buffer.                                      *)
(*                                                                         *)
(* Parser::new collects the whole buffer before parse runs, and parse      *)
(* reads it at the cursor only. The model fixes src[i], or the end of the  *)
(* buffer, when the cursor first reaches i (Reveal): the behaviours cover  *)
(* every buffer of at most MaxTokens tokens of TokensTried, a buffer that  *)
(* differs only behind the token parse fails at giving the same run.       *)
(***************************************************************************)
\* the identifiers tried: "window" is a kind and no key, "width" is a key of
\* that kind and no kind, and either is a string where it stands for a value
IdentsTried == {Str("window"), Str("width")}

TokensTried ==
    {Identifier(s_) : s_ \in IdentsTried}
      \cup {Number(One), VStringTok(<<Quote, "t", Quote>>), NewLine, Equal, Comma,
            LParen, RParen, LBrace, RBrace, Error}

InitParse ==
    /\ IdleCanvas
    /\ IdleValidate
    /\ IdleLex
    /\ IdleShading
    /\ src = <<>>
    /\ eof = FALSE
    /\ position = 0
    /\ definitions = <<>>
    /\ def_type = <<>>
    /\ assignments = <<>>
    /\ name = <<>>
    /\ value = NoValue
    /\ nums = <<>>
    /\ validated = FALSE
    /\ result = NoResult
    /\ ppc = "munch_start"

\* the token at the cursor, or the end of the buffer, is known
Known == position < Len(src) \/ eof

Reveal ==
    /\ ppc \notin {"validate", "done"}
    /\ ~Known
    /\ \/ /\ Len(src) < MaxTokens
          /\ \E tok \in TokensTried : src' = Append(src, tok)
          /\ eof' = eof
       \/ /\ eof' = TRUE
          /\ src' = src
    /\ UNCHANGED <<position, definitions, def_type, assignments, name, value,
                   nums, validated, result, ppc>>
    /\ UNCHANGED otherThanParse

\* a function returns Err(m) and the ? operators hand it up to parse's caller
Fail(m) ==
    /\ result' = Err(m)
    /\ ppc' = "done"

\* Parser::munch_newlines, one test of its loop, at each of its three calls
MunchNewlines ==
    /\ ppc \in {"munch_start", "munch_top", "munch_def"}
    /\ Known
    /\ IF munches(peek(src, position))
       THEN /\ position' = next_position(src, position)
            /\ ppc' = ppc
       ELSE /\ position' = position
            /\ ppc' = IF ppc = "munch_def" THEN "asg_name" ELSE "top"
    /\ UNCHANGED <<src, eof, definitions, def_type, assignments, name, value,
                   nums, validated, result>>
    /\ UNCHANGED otherThanParse

\* Parser::parse: while let Some(x) = self.peek()
ParseLoop ==
    /\ ppc = "top"
    /\ Known
    /\ ppc' = IF peek(src, position) = None THEN "validate" ELSE "def_type"
    /\ UNCHANGED <<src, eof, position, definitions, def_type, assignments, name,
                   value, nums, validated, result>>
    /\ UNCHANGED otherThanParse

\* Parser::parse_raw_definition: the definition type
DefType ==
    /\ ppc = "def_type"
    /\ Known
    /\ position' = next_position(src, position)
    /\ LET r == expect_ident(peek(src, position),
                             "Object definitions should start with a definition type")
       IN  IF r.ok
           THEN /\ def_type' = Unwrap(r)
                /\ assignments' = <<>>
                /\ ppc' = "def_lbrace"
                /\ UNCHANGED result
           ELSE /\ Fail(r.err)
                /\ UNCHANGED <<def_type, assignments>>
    /\ UNCHANGED <<src, eof, definitions, name, value, nums, validated>>
    /\ UNCHANGED otherThanParse

\* Parser::parse_raw_definition: the opening brace
DefLBrace ==
    /\ ppc = "def_lbrace"
    /\ Known
    /\ position' = next_position(src, position)
    /\ LET r == expect(peek(src, position), LBrace,
                       "A definition should be opened by a curly brace '{'")
       IN  IF r.ok
           THEN ppc' = "munch_def" /\ UNCHANGED result
           ELSE Fail(r.err)
    /\ UNCHANGED <<src, eof, definitions, def_type, assignments, name, value,
                   nums, validated>>
    /\ UNCHANGED otherThanParse

\* Parser::parse_assignment: the name
AssignmentName ==
    /\ ppc = "asg_name"
    /\ Known
    /\ position' = next_position(src, position)
    /\ LET r == expect_ident(peek(src, position),
                             "Assignments should start with identifiers")
       IN  IF r.ok
           THEN /\ name' = Unwrap(r)
                /\ ppc' = "asg_eq"
                /\ UNCHANGED result
           ELSE /\ Fail(r.err)
                /\ UNCHANGED name
    /\ UNCHANGED <<src, eof, definitions, def_type, assignments, value, nums,
                   validated>>
    /\ UNCHANGED otherThanParse

\* Parser::parse_assignment: the equal sign
AssignmentEqual ==
    /\ ppc = "asg_eq"
    /\ Known
    /\ position' = next_position(src, position)
    /\ LET r == expect(peek(src, position), Equal, "Expected = when parsing assignment")
       IN  IF r.ok
           THEN ppc' = "value" /\ UNCHANGED result
           ELSE Fail(r.err)
    /\ UNCHANGED <<src, eof, definitions, def_type, assignments, name, value,
                   nums, validated>>
    /\ UNCHANGED otherThanParse

\* Parser::parse_value
ParseValue ==
    /\ ppc = "value"
    /\ Known
    /\ position' = next_position(src, position)
    /\ LET tok == peek(src, position)
       IN  CASE tok = None ->
                  /\ Fail(Msg("Unexpected EOF when parsing a value", <<>>, NoValue, NoToken))
                  /\ UNCHANGED <<value, nums>>
             [] tok # None /\ tok[1].t = "Number" ->
                  /\ value' = Num(tok[1].n)
                  /\ ppc' = "asg_nl"
                  /\ UNCHANGED <<result, nums>>
             [] tok # None /\ tok[1].t = "VString" ->
                  /\ value' = VString(strip_speechmarks(tok[1].s))
                  /\ ppc' = "asg_nl"
                  /\ UNCHANGED <<result, nums>>
             [] tok # None /\ tok[1].t = "Identifier" ->
                  /\ value' = VString(tok[1].s)
                  /\ ppc' = "asg_nl"
                  /\ UNCHANGED <<result, nums>>
             [] tok # None /\ tok[1].t = "LParen" ->
                  /\ nums' = <<>>
                  /\ ppc' = "tup_n1"
                  /\ UNCHANGED <<result, value>>
             [] OTHER ->
                  /\ Fail(Msg("Invalid value: {:?}", <<>>, NoValue, tok[1]))
                  /\ UNCHANGED <<value, nums>>
    /\ UNCHANGED <<src, eof, definitions, def_type, assignments, name, validated>>
    /\ UNCHANGED otherThanParse

\* Parser::parse_tuple: num1, num2, num3
TupleNumber ==
    /\ ppc \in {"tup_n1", "tup_n2", "tup_n3"}
    /\ Known
    /\ position' = next_position(src, position)
    /\ LET r == expect_number(peek(src, position),
                              IF ppc = "tup_n3"
                              THEN "Tuples can only contain number"
                              ELSE "Tuples can only contain numbers")
       IN  IF r.ok
           THEN /\ nums' = Append(nums, Unwrap(r))
                /\ ppc' = CASE ppc = "tup_n1" -> "tup_c1"
                            [] ppc = "tup_n2" -> "tup_c2"
                            [] OTHER -> "tup_rp"
                /\ UNCHANGED result
           ELSE /\ Fail(r.err)
                /\ UNCHANGED nums
    /\ UNCHANGED <<src, eof, definitions, def_type, assignments, name, value,
                   validated>>
    /\ UNCHANGED otherThanParse

\* Parser::parse_tuple: the commas
TupleComma ==
    /\ ppc \in {"tup_c1", "tup_c2"}
    /\ Known
    /\ position' = next_position(src, position)
    /\ LET r == expect(peek(src, position), Comma,
                       "Expected a comma to separate values in tuple")
       IN  IF r.ok
           THEN /\ ppc' = IF ppc = "tup_c1" THEN "tup_n2" ELSE "tup_n3"
                /\ UNCHANGED result
           ELSE Fail(r.err)
    /\ UNCHANGED <<src, eof, definitions, def_type, assignments, name, value,
                   nums, validated>>
    /\ UNCHANGED otherThanParse

\* Parser::parse_tuple: the closing paren and the value
TupleClose ==
    /\ ppc = "tup_rp"
    /\ Known
    /\ position' = next_position(src, position)
    /\ LET r == expect(peek(src, position), RParen,
                       "Expected a right paren to close tuple")
       IN  IF r.ok
           THEN /\ value' = Tuple(nums)
                /\ ppc' = "asg_nl"
                /\ UNCHANGED result
           ELSE /\ Fail(r.err)
                /\ UNCHANGED value
    /\ UNCHANGED <<src, eof, definitions, def_type, assignments, name, nums,
                   validated>>
    /\ UNCHANGED otherThanParse

\* Parser::parse_assignment: the newline, and the push of the assignment
AssignmentNewLine ==
    /\ ppc = "asg_nl"
    /\ Known
    /\ position' = next_position(src, position)
    /\ LET r == expect(peek(src, position), NewLine,
                       "Expect assignments to be terminated by newlines")
       IN  IF r.ok
           THEN /\ assignments' = Append(assignments, Assignment(name, value))
                /\ ppc' = "def_loop"
                /\ UNCHANGED result
           ELSE /\ Fail(r.err)
                /\ UNCHANGED assignments
    /\ UNCHANGED <<src, eof, definitions, def_type, name, value, nums, validated>>
    /\ UNCHANGED otherThanParse

\* Parser::parse_raw_definition: one turn of its loop
DefinitionLoop ==
    /\ ppc = "def_loop"
    /\ Known
    /\ LET tok == peek(src, position)
       IN  CASE tok = None ->
                  /\ Fail(Msg("Unexpected EOF when parsing definition",
                              <<>>, NoValue, NoToken))
                  /\ UNCHANGED <<position, definitions>>
             [] tok = Some(NewLine) ->
                  /\ position' = next_position(src, position)
                  /\ UNCHANGED <<ppc, result, definitions>>
             [] tok = Some(RBrace) ->
                  /\ position' = next_position(src, position)
                  /\ definitions' =
                       Append(definitions, RawDefinition(def_type, assignments))
                  /\ ppc' = "munch_top"
                  /\ UNCHANGED result
             [] tok # None /\ tok[1].t = "Identifier" ->
                  /\ ppc' = "asg_name"
                  /\ UNCHANGED <<position, result, definitions>>
             [] OTHER ->
                  /\ Fail(Msg("Unexpected token {:?} when parsing definition; expected assignment or closing brace",
                              <<>>, NoValue, tok[1]))
                  /\ UNCHANGED <<position, definitions>>
    /\ UNCHANGED <<src, eof, def_type, assignments, name, value, nums, validated>>
    /\ UNCHANGED otherThanParse

\* Parser::parse: definitions.into_iter().map(from_raw).collect()
Validate ==
    /\ ppc = "validate"
    /\ result' = collect_from_raw(definitions, 1, <<>>)
    /\ validated' = TRUE
    /\ ppc' = "done"
    /\ UNCHANGED <<src, eof, position, definitions, def_type, assignments, name,
                   value, nums>>
    /\ UNCHANGED otherThanParse

NextParse ==
    \/ Reveal
    \/ MunchNewlines
    \/ ParseLoop
    \/ DefType
    \/ DefLBrace
    \/ AssignmentName
    \/ AssignmentEqual
    \/ ParseValue
    \/ TupleNumber
    \/ TupleComma
    \/ TupleClose
    \/ AssignmentNewLine
    \/ DefinitionLoop
    \/ Validate

SpecParse == InitParse /\ [][NextParse]_vars

\* parse runs on: no step of it waits for anything
SpecParseLive == InitParse /\ [][NextParse]_vars /\ WF_vars(NextParse)

(***************************************************************************)
(* Token::lexer: the text is a sequence of characters, a slice of it the   *)
(* sequence of its characters.                                             *)
(***************************************************************************)
Digits == {"0", "1", "2", "3", "4", "5", "6", "7", "8", "9"}

Letters ==
    {"a", "b", "c", "d", "e", "f", "g", "h", "i", "j", "k", "l", "m",
     "n", "o", "p", "q", "r", "s", "t", "u", "v", "w", "x", "y", "z",
     "A", "B", "C", "D", "E", "F", "G", "H", "I", "J", "K", "L", "M",
     "N", "O", "P", "Q", "R", "S", "T", "U", "V", "W", "X", "Y", "Z"}

Blanks == {" ", "\t", "\f"}

LineEnds == {"\r", "\n"}

\* the character after the first p characters of txt
At(txt, p) == txt[p + 1]

\* the number of characters after the first p of txt that a class takes one
\* after the other: the class is the set S (inside) or all but S
RECURSIVE Run(_, _, _, _)
Run(txt, p, S, inside) ==
    IF p < Len(txt) /\ ((At(txt, p) \in S) = inside)
    THEN 1 + Run(txt, p + 1, S, inside)
    ELSE 0

\* [a-zA-Z]+
IdentifierLen(txt, p) == Run(txt, p, Letters, TRUE)

\* -?[0-9]+(.[0-9]+)? : the longest match; the . of the pattern is any
\* character but a line feed
NumberLen(txt, p) ==
    LET q == IF At(txt, p) = "-" THEN p + 1 ELSE p
        d1 == Run(txt, q, Digits, TRUE)
        r == q + d1
        d2 == IF r < Len(txt) /\ At(txt, r) # "\n"
              THEN Run(txt, r + 1, Digits, TRUE)
              ELSE 0
    IN  IF d1 = 0 THEN 0
        ELSE IF d2 > 0 THEN r + 1 + d2 - p
        ELSE r - p

\* "[^"]*"
VStringLen(txt, p) ==
    LET b == Run(txt, p + 1, {Quote}, FALSE)
    IN  IF At(txt, p) = Quote /\ p + 1 + b < Len(txt) THEN b + 2 ELSE 0

\* [\r\n]+ and #[^\n]*\n
NewLineLen(txt, p) ==
    LET b == Run(txt, p + 1, {"\n"}, FALSE)
    IN  IF At(txt, p) = "#"
        THEN IF p + 1 + b < Len(txt) THEN b + 2 ELSE 0
        ELSE Run(txt, p, LineEnds, TRUE)

\* the tokens of one character
Punctuation(c) ==
    CASE c = "=" -> Some(Equal)
      [] c = "," -> Some(Comma)
      [] c = "(" -> Some(LParen)
      [] c = ")" -> Some(RParen)
      [] c = "{" -> Some(LBrace)
      [] c = "}" -> Some(RBrace)
      [] OTHER -> None

DigitValue(c) ==
    CASE c = "0" -> 0 [] c = "1" -> 1 [] c = "2" -> 2 [] c = "3" -> 3
      [] c = "4" -> 4 [] c = "5" -> 5 [] c = "6" -> 6 [] c = "7" -> 7
      [] c = "8" -> 8 [] c = "9" -> 9

RECURSIVE DigitsValue(_)
DigitsValue(ds) ==
    IF ds = <<>> THEN 0
    ELSE 10 * DigitsValue(SubSeq(ds, 1, Len(ds) - 1)) + DigitValue(ds[Len(ds)])

RECURSIVE Pow10(_)
Pow10(k) == IF k = 0 THEN 1 ELSE 10 * Pow10(k - 1)

\* lex.slice().parse::<f64>() on a slice the Number pattern matched: digits,
\* then nothing, or a point and digits, or an exponent mark and digits
parse_f64(slice) ==
    LET neg == slice[1] = "-"
        body == IF neg THEN Tail(slice) ELSE slice
        d1 == Run(body, 0, Digits, TRUE)
        sign == IF neg THEN -1 ELSE 1
        int == DigitsValue(SubSeq(body, 1, d1))
        rest == SubSeq(body, d1 + 2, Len(body))
    IN  IF d1 = Len(body) THEN Ok(F64(sign * int, 0))
        ELSE IF body[d1 + 1] = "."
        THEN Ok(F64(sign * (int * Pow10(Len(rest)) + DigitsValue(rest)), -Len(rest)))
        ELSE IF body[d1 + 1] \in {"e", "E"}
        THEN Ok(F64(sign * int, DigitsValue(rest)))
        ELSE Err(NoMsg)

\* the callback of Number: Ok gives the token, Err the Error token
NumberCallback(slice) ==
    LET r == parse_f64(slice)
    IN  IF r.ok THEN Number(Unwrap(r)) ELSE Error

\* the position after the blanks the lexer skips
SkipBlanks(txt, p) == p + Run(txt, p, Blanks, TRUE)

\* the lengths an Error token can have where no pattern matches at p: the
\* character at p, or what the lexer had read of a string or a comment that
\* the text ends in
ErrorLens(txt, p) ==
    IF At(txt, p) \in {Quote, "#"} THEN {1, Len(txt) - p} ELSE {1}

\* the tokens Lexer::next can return at p, p < Len(txt), with their lengths
TokensAt(txt, p) ==
    LET c == At(txt, p)
        il == IdentifierLen(txt, p)
        nl == NumberLen(txt, p)
        sl == VStringLen(txt, p)
        ll == NewLineLen(txt, p)
    IN  IF il > 0 THEN {[tok |-> Identifier(SubSeq(txt, p + 1, p + il)), len |-> il]}
        ELSE IF nl > 0
        THEN {[tok |-> NumberCallback(SubSeq(txt, p + 1, p + nl)), len |-> nl]}
        ELSE IF sl > 0
        THEN {[tok |-> VStringTok(SubSeq(txt, p + 1, p + sl)), len |-> sl]}
        ELSE IF ll > 0 THEN {[tok |-> NewLine, len |-> ll]}
        ELSE IF Punctuation(c) # None THEN {[tok |-> Punctuation(c)[1], len |-> 1]}
        ELSE {[tok |-> Error, len |-> l] : l \in ErrorLens(txt, p)}

\* the characters tried: a digit, the sign, the point, the comma, a letter that
\* is the exponent mark, a blank, the line feed and the comment mark
CharsTried == {"1", "-", ".", ",", "e", " ", "\n", "#"}

InitLex ==
    /\ IdleShading
    /\ IdleCanvas
    /\ IdleValidate
    /\ IdleParse
    /\ \E m \in 0 .. MaxText : text \in [1 .. m -> CharsTried]
    /\ lpos = 0
    /\ tokens = <<>>
    /\ spans = <<>>
    /\ lpc = "lexing"

\* Lexer::next returns a token: the iterator Parser::new collects
LexToken ==
    /\ lpc = "lexing"
    /\ SkipBlanks(text, lpos) < Len(text)
    /\ LET p == SkipBlanks(text, lpos)
       IN  \E m \in TokensAt(text, p) :
             /\ tokens' = Append(tokens, m.tok)
             /\ spans' = Append(spans, SubSeq(text, p + 1, p + m.len))
             /\ lpos' = p + m.len
    /\ UNCHANGED <<text, lpc>>
    /\ UNCHANGED otherThanLex

\* Lexer::next returns None: the text is at its end
LexEnd ==
    /\ lpc = "lexing"
    /\ SkipBlanks(text, lpos) >= Len(text)
    /\ lpos' = Len(text)
    /\ lpc' = "done"
    /\ UNCHANGED <<text, tokens, spans>>
    /\ UNCHANGED otherThanLex

NextLex == LexToken \/ LexEnd

SpecLex == InitLex /\ [][NextLex]_vars

(***************************************************************************)
(* Arithmetic of f64 values, over the rationals and f64::INFINITY.         *)
(***************************************************************************)
IsInf(a) == a[2] = 0

RNeg(a) == <<-a[1], a[2]>>

\* the sum over the least common denominator
RAdd(a, b) ==
    IF IsInf(a) THEN a ELSE IF IsInf(b) THEN b
    ELSE LET g == GCD(a[2], b[2])
         IN  Rat(a[1] * (b[2] \div g) + b[1] * (a[2] \div g), (a[2] \div g) * b[2])

RSub(a, b) == RAdd(a, RNeg(b))

\* the product, the common factors taken out first
RMul(a, b) ==
    LET g1 == GCD(Abs(a[1]), b[2])
        g2 == GCD(Abs(b[1]), a[2])
    IN  Rat((a[1] \div g1) * (b[1] \div g2), (a[2] \div g2) * (b[2] \div g1))

\* a / b, b not 0
RDiv(a, b) ==
    RMul(a, IF b[1] < 0 THEN <<-b[2], -b[1]>> ELSE <<b[2], b[1]>>)

\* a < b: nothing is above the infinity
RLess(a, b) ==
    IF IsInf(a) THEN FALSE
    ELSE IF IsInf(b) THEN TRUE
    ELSE LET g == GCD(a[2], b[2])
         IN  a[1] * (b[2] \div g) < b[1] * (a[2] \div g)

RLeq(a, b) == a = b \/ RLess(a, b)

RInt(n) == Rat(n, 1)

(***************************************************************************)
(* color.rs                                                                *)
(***************************************************************************)
U8_MAX == 255

rgba(r, g, b, a) == <<r, g, b, a>>

\* sum as u8, sum at most u8::MAX: the fraction is dropped, and a negative
\* value gives 0
as_u8(sum) == IF sum[1] < 0 THEN 0 ELSE sum[1] \div sum[2]

\* the cast wraps: not what the code does
as_u8_wrapping(sum) == (sum[1] \div sum[2]) % 256

\* mutant: the product is cast without the test against u8::MAX
mul_without_ceiling(a, b) == as_u8_wrapping(RMul(RInt(a), b))

mul_with_ceiling(a, b) ==
    LET sum == RMul(RInt(a), b)
    IN  IF RLess(RInt(U8_MAX), sum) THEN U8_MAX ELSE as_u8(sum)

scale(self, s) ==
    rgba(mul_with_ceiling(self[1], s), mul_with_ceiling(self[2], s),
         mul_with_ceiling(self[3], s), mul_with_ceiling(self[4], s))

\* the channel values and scalars tried
ChannelsTried == {0, 1, 100, 127, 200, 255}

ScalarDen == 4

ScalarsTried == {Rat(k, ScalarDen) : k \in 0 .. MaxScalar}

InitScale ==
    /\ IdleCanvas
    /\ IdleValidate
    /\ IdleParse
    /\ IdleLex
    /\ IdleTrace
    /\ IdleIter
    /\ scale_self \in ChannelsTried \X ChannelsTried \X ChannelsTried \X ChannelsTried
    /\ scalar \in ScalarsTried
    /\ scale_result = scale_self
    /\ spc = "idle"

\* one call of Color::scale
ScaleCall ==
    /\ spc = "idle"
    /\ scale_result' = scale(scale_self, scalar)
    /\ spc' = "done"
    /\ UNCHANGED <<scale_self, scalar>>
    /\ UNCHANGED otherThanScale

NextScale == ScaleCall

SpecScale == InitScale /\ [][NextScale]_vars

(***************************************************************************)
(* coord.rs: WorldCoordinate                                               *)
(***************************************************************************)
World(x, y, z) == [x |-> x, y |-> y, z |-> z]

\* a WorldCoordinate of whole numbers
WorldInt(x, y, z) == World(RInt(x), RInt(y), RInt(z))

dot(a, b) == RAdd(RAdd(RMul(a.x, b.x), RMul(a.y, b.y)), RMul(a.z, b.z))

RECURSIVE ISqrtIn(_, _, _)
\* the integer root of n, between lo and hi: lo * lo <= n < hi * hi
ISqrtIn(n, lo, hi) ==
    IF hi - lo <= 1 THEN lo
    ELSE LET mid == (lo + hi) \div 2
         IN  IF mid * mid <= n THEN ISqrtIn(n, mid, hi) ELSE ISqrtIn(n, lo, mid)

ISqrtCap == 46340

ISqrt(n) == ISqrtIn(n, 0, IF n < ISqrtCap THEN n + 1 ELSE ISqrtCap + 1)

\* an irrational root is kept in multiples of 1/SqrtScale
SqrtScale == 16

\* f64::sqrt of a value that is not negative: the root where it is rational,
\* and otherwise the root rounded down to a multiple of 1/SqrtScale
sqrt(a) ==
    LET rn == ISqrt(a[1])
        rd == ISqrt(a[2])
    IN  IF rn * rn = a[1] /\ rd * rd = a[2]
        THEN Rat(rn, rd)
        ELSE Rat(ISqrt((a[1] * SqrtScale * SqrtScale) \div a[2]), SqrtScale)

abs(a) == sqrt(dot(a, a))

sub(a, b) == World(RSub(a.x, b.x), RSub(a.y, b.y), RSub(a.z, b.z))

add(a, b) == World(RAdd(a.x, b.x), RAdd(a.y, b.y), RAdd(a.z, b.z))

mul(a, k) == World(RMul(a.x, k), RMul(a.y, k), RMul(a.z, k))

div(a, k) == World(RDiv(a.x, k), RDiv(a.y, k), RDiv(a.z, k))

(***************************************************************************)
(* scene/object/shape.rs                                                   *)
(***************************************************************************)
NewSphere(radius, center, col) == [radius |-> radius, center |-> center, color |-> col]

\* mutant: the two roots change places
intersect_ray_swapped(self, camera, vp) ==
    LET vec_co == sub(camera, self.center)
        a == dot(vp, vp)
        b == RMul(RInt(2), dot(vec_co, vp))
        c == RSub(dot(vec_co, vec_co), RMul(self.radius, self.radius))
        disc == RSub(RMul(b, b), RMul(RMul(RInt(4), a), c))
    IN  IF RLess(disc, Zero)
        THEN <<Inf, Inf>>
        ELSE <<RDiv(RSub(RNeg(b), sqrt(disc)), RMul(RInt(2), a)),
               RDiv(RAdd(RNeg(b), sqrt(disc)), RMul(RInt(2), a))>>

\* Sphere::intersect_ray with a ray that is not the zero vector
intersect_ray(self, camera, vp) ==
    LET r == self.radius
        vec_co == sub(camera, self.center)
        a == dot(vp, vp)
        b == RMul(RInt(2), dot(vec_co, vp))
        c == RSub(dot(vec_co, vec_co), RMul(r, r))
        disc == RSub(RMul(b, b), RMul(RMul(RInt(4), a), c))
    IN  IF RLess(disc, Zero)
        THEN <<Inf, Inf>>
        ELSE LET t1 == RDiv(RAdd(RNeg(b), sqrt(disc)), RMul(RInt(2), a))
                 t2 == RDiv(RSub(RNeg(b), sqrt(disc)), RMul(RInt(2), a))
             IN  <<t1, t2>>

(***************************************************************************)
(* scene/object/light.rs                                                   *)
(***************************************************************************)
Ambient(intensity) == [tag |-> "Ambient", intensity |-> intensity, v |-> NoWorld]
Point(position_, intensity) == [tag |-> "Point", intensity |-> intensity, v |-> position_]
Direction(direction_, intensity) ==
    [tag |-> "Direction", intensity |-> intensity, v |-> direction_]

\* mutant: a surface that faces away from the light is lit as one that faces it
directional_intensity_two_sided(direction_, surface_normal, intensity) ==
    LET n_dot_l == dot(surface_normal, direction_)
    IN  IF n_dot_l = Zero THEN Zero
        ELSE RDiv(RMul(intensity, IF RLess(n_dot_l, Zero) THEN RNeg(n_dot_l) ELSE n_dot_l),
                  RMul(abs(surface_normal), abs(direction_)))

directional_intensity(direction_, surface_normal, intensity) ==
    LET n_dot_l == dot(surface_normal, direction_)
    IN  IF RLess(Zero, n_dot_l)
        THEN RDiv(RMul(intensity, n_dot_l),
                  RMul(abs(surface_normal), abs(direction_)))
        ELSE Zero

illumination_at_point(self, point_, surface_normal) ==
    CASE self.tag = "Ambient" -> self.intensity
      [] self.tag = "Direction" ->
            directional_intensity(self.v, surface_normal, self.intensity)
      [] self.tag = "Point" ->
            directional_intensity(sub(self.v, point_), surface_normal, self.intensity)

\* Scene::compute_lighting: the sum over the lights from light i on
RECURSIVE compute_lighting(_, _, _, _)
compute_lighting(ls, i, point_, normal_) ==
    IF i > Len(ls) THEN Zero
    ELSE RAdd(illumination_at_point(ls[i], point_, normal_),
              compute_lighting(ls, i + 1, point_, normal_))

(***************************************************************************)
(* Scene::compute_lighting on a point and a normal.                        *)
(***************************************************************************)
Half == Rat(1, 2)

LightsTried ==
    {Ambient(Half),
     Point(WorldInt(0, 2, 0), RInt(1)), Point(WorldInt(1, 1, 0), Half),
     Direction(WorldInt(0, 1, 0), RInt(1)), Direction(WorldInt(0, 3, 4), Half),
     Direction(WorldInt(0, -1, 0), RInt(1))}

PointsTried == {WorldInt(0, 0, 0), WorldInt(0, 1, 0)}

NormalsTried ==
    {WorldInt(0, 1, 0), WorldInt(0, 2, 0), WorldInt(1, 1, 0), WorldInt(0, -1, 0),
     WorldInt(0, 4, 3)}

InitLight ==
    /\ IdleCanvas
    /\ IdleValidate
    /\ IdleParse
    /\ IdleLex
    /\ IdleScale
    /\ IdleIter
    /\ camera_position = NoWorld
    /\ spheres = <<>>
    /\ \E m \in 0 .. MaxLights : lights \in [1 .. m -> LightsTried]
    /\ background_color = RED
    /\ ray = NoWorld
    /\ t_min = Zero
    /\ t_max = Inf
    /\ closest_t = Inf
    /\ closest_sphere = <<>>
    /\ sphere_i = 0
    /\ roots = <<Inf, Inf>>
    /\ point \in PointsTried
    /\ normal \in NormalsTried
    /\ light_intensity = Zero
    /\ traced = RED
    /\ tpc = "idle"

\* one call of Scene::compute_lighting
LightingCall ==
    /\ tpc = "idle"
    /\ light_intensity' = compute_lighting(lights, 1, point, normal)
    /\ tpc' = "done"
    /\ UNCHANGED <<camera_position, spheres, lights, background_color, ray, t_min,
                   t_max, closest_t, closest_sphere, sphere_i, roots, point, normal,
                   traced>>
    /\ UNCHANGED otherThanTrace

NextLight == LightingCall

SpecLight == InitLight /\ [][NextLight]_vars

(***************************************************************************)
(* Scene::trace_ray                                                        *)
(***************************************************************************)
BLACK == <<0, 0, 0, 255>>

\* mutant: a root as near as the nearest so far takes its place
is_closer_or_as_close(t, tmin, tmax, closest) ==
    ~IsInf(t) /\ RLeq(tmin, t) /\ RLeq(t, tmax) /\ RLeq(t, closest)

\* t_min <= t && t <= t_max && t < closest_t
is_closer(t, tmin, tmax, closest) ==
    RLeq(tmin, t) /\ RLeq(t, tmax) /\ RLess(t, closest)

SpheresTried ==
    {NewSphere(RInt(1), WorldInt(0, 0, 5), RED),
     NewSphere(RInt(1), WorldInt(0, 0, 5), GREEN),
     NewSphere(RInt(2), WorldInt(0, 0, 6), GREEN),
     NewSphere(RInt(1), WorldInt(0, 0, 3), GREEN),
     NewSphere(RInt(1), WorldInt(3, 0, 5), RED),
     NewSphere(RInt(1), WorldInt(0, 0, -5), RED),
     NewSphere(RInt(5), WorldInt(3, 0, 5), GREEN)}

\* the rays tried: z is the depth of a viewport, which is at least 1
RaysTried == {WorldInt(0, 0, 1), WorldInt(0, 0, 2), WorldInt(1, 0, 1)}

LightListsTried ==
    {<<>>, <<Ambient(Half)>>, <<Ambient(Half), Point(WorldInt(0, 0, 0), RInt(1))>>,
     <<Direction(WorldInt(0, 0, -1), RInt(1))>>}

InitTrace ==
    /\ IdleCanvas
    /\ IdleValidate
    /\ IdleParse
    /\ IdleLex
    /\ IdleScale
    /\ IdleIter
    /\ camera_position \in {WorldInt(0, 0, 0), WorldInt(0, 0, -1)}
    /\ \E m \in 0 .. MaxSpheres : spheres \in [1 .. m -> SpheresTried]
    /\ lights \in LightListsTried
    /\ background_color = BLACK
    /\ ray \in RaysTried
    /\ t_min \in {RInt(1), RInt(5)}
    /\ t_max \in {Inf, RInt(4)}
    /\ closest_t = Inf
    /\ closest_sphere = None
    /\ sphere_i = 0
    /\ roots = <<Inf, Inf>>
    /\ point = NoWorld
    /\ normal = NoWorld
    /\ light_intensity = Zero
    /\ traced = BLACK
    /\ tpc = "idle"

\* Scene::trace_ray, entry
TraceBegin ==
    /\ tpc = "idle"
    /\ closest_t' = Inf
    /\ closest_sphere' = None
    /\ sphere_i' = 0
    /\ tpc' = "loop"
    /\ UNCHANGED <<camera_position, spheres, lights, background_color, ray, t_min,
                   t_max, roots, point, normal, light_intensity, traced>>
    /\ UNCHANGED otherThanTrace

\* Scene::trace_ray, one sphere of the for loop
TraceSphere ==
    /\ tpc = "loop"
    /\ sphere_i < Len(spheres)
    /\ LET i == sphere_i + 1
           t == intersect_ray(spheres[i], camera_position, ray)
           first == is_closer(t[1], t_min, t_max, closest_t)
           closest_1 == IF first THEN t[1] ELSE closest_t
           second == is_closer(t[2], t_min, t_max, closest_1)
       IN  /\ roots' = t
           /\ closest_sphere' = IF first \/ second THEN Some(i) ELSE closest_sphere
           /\ closest_t' = IF second THEN t[2] ELSE closest_1
           /\ sphere_i' = i
    /\ UNCHANGED <<camera_position, spheres, lights, background_color, ray, t_min,
                   t_max, point, normal, light_intensity, traced, tpc>>
    /\ UNCHANGED otherThanTrace

\* Scene::trace_ray, the match on closest_sphere and the return
TraceMatch ==
    /\ tpc = "loop"
    /\ sphere_i = Len(spheres)
    /\ IF closest_sphere = None
       THEN /\ traced' = background_color
            /\ UNCHANGED <<point, normal, light_intensity>>
       ELSE LET s == spheres[closest_sphere[1]]
                point_ == add(camera_position, mul(ray, closest_t))
                normal_dir == sub(point_, s.center)
                normal_ == div(normal_dir, abs(normal_dir))
                li == compute_lighting(lights, 1, point_, normal_)
            IN  /\ point' = point_
                /\ normal' = normal_
                /\ light_intensity' = li
                /\ traced' = scale(s.color, li)
    /\ tpc' = "done"
    /\ UNCHANGED <<camera_position, spheres, lights, background_color, ray, t_min,
                   t_max, closest_t, closest_sphere, sphere_i, roots>>
    /\ UNCHANGED otherThanTrace

NextTrace == TraceBegin \/ TraceSphere \/ TraceMatch

SpecTrace == InitTrace /\ [][NextTrace]_vars

(***************************************************************************)
(* main.rs: the Canvas of the program entry file, its conversion to screen *)
(* coordinates and its put_pixel.                                          *)
(***************************************************************************)
\* fn out_of_bounds of main.rs
MainOutOfBounds(x, y, w, h) == x < 0 \/ y < 0 \/ x > w \/ y > h

\* Converts<CanvasCoordinate, ScreenCoordinate> for Canvas of main.rs
MainConvert(c, cc) ==
    LET x == (c.width \div 2) + cc.x
        y == (c.height \div 2) + cc.y
    IN  IF MainOutOfBounds(x, y, c.width, c.height)
        THEN OffScreen
        ELSE OnScreen(x, y)

\* the slice pixel_index..pixel_index+4 is out of range: put_pixel panics
MainPutPixelPanics(c, f, cc) ==
    LET sc == MainConvert(c, cc)
    IN  sc.tag = "OnScreen" /\ pixel_index(c, sc) + 4 > FrameLen(f)

\* Canvas::put_pixel of main.rs: the frame after the call
MainPutPixel(c, f, cc, col) ==
    LET sc == MainConvert(c, cc)
    IN  IF sc.tag = "OnScreen" /\ ~MainPutPixelPanics(c, f, cc)
        THEN LET pi == pixel_index(c, sc)
             IN  [i \in DOMAIN f |->
                    IF pi <= i /\ i < pi + 4 THEN col[i - pi + 1] ELSE f[i]]
        ELSE f

\* One call of put_pixel of main.rs with any canvas coordinate and color
MainPutPixelCall ==
    /\ rpc = "idle"
    /\ \E x \in -MaxCoord .. MaxCoord, y \in -MaxCoord .. MaxCoord, col \in Colors :
         LET cc == [x |-> x, y |-> y]
         IN  /\ coord' = cc
             /\ color' = col
             /\ screen_coord' = MainConvert(TheCanvas, cc)
             /\ panicked' = MainPutPixelPanics(TheCanvas, frame, cc)
             /\ frame' = MainPutPixel(TheCanvas, frame, cc, col)
    /\ rpc' = "put"
    /\ UNCHANGED <<width, height, viewport, iter, viewport_coord, writes>>
    /\ UNCHANGED otherThanCanvas

NextMainPut == MainPutPixelCall

SpecMainPut == InitPut /\ [][NextMainPut]_vars

(***************************************************************************)
(* Canvas::iter_pixels and the calls of next on what it returns.           *)
(***************************************************************************)
InitIter ==
    /\ IdleValidate
    /\ IdleParse
    /\ IdleLex
    /\ IdleScale
    /\ IdleTrace
    /\ width \in 1 .. MaxIterDim
    /\ height \in 1 .. MaxIterDim
    /\ viewport = [width |-> 1, height |-> 1, depth |-> 1]
    /\ frame = BlankFrame(width, height)
    /\ writes = NoWrites(width, height)
    /\ iter = iter_pixels(TheCanvas)
    /\ coord = NoCoord
    /\ viewport_coord = NoWorld
    /\ screen_coord = OffScreen
    /\ color = RED
    /\ panicked = FALSE
    /\ rpc = "idle"
    /\ yielded = <<>>
    /\ nones = 0
    /\ ipc = "next"

\* EachCanvasCoordinate::next returns Some(coord)
IterNextSome ==
    /\ ipc = "next"
    /\ ~iter.finished
    /\ coord' = IterItem(iter)
    /\ yielded' = Append(yielded, IterItem(iter))
    /\ iter' = IterAdvance(iter)
    /\ UNCHANGED <<width, height, viewport, frame, writes, viewport_coord,
                   screen_coord, color, panicked, rpc, nones, ipc>>
    /\ UNCHANGED otherThanIter

\* EachCanvasCoordinate::next returns None
IterNextNone ==
    /\ ipc = "next"
    /\ iter.finished
    /\ nones < MaxNones
    /\ nones' = nones + 1
    /\ UNCHANGED <<canvasVars, yielded, ipc>>
    /\ UNCHANGED otherThanIter

NextIter == IterNextSome \/ IterNextNone

SpecIter == InitIter /\ [][NextIter]_vars

(***************************************************************************)
(* Claims                                                                  *)
(***************************************************************************)

\* C1: when Scene::render has returned, every pixel slot of the canvas has
\* been written exactly once and the buffer still has width*height*4 bytes.
C1_RenderWritesEveryPixelOnce ==
    rpc = "done" =>
        /\ \A s \in 0 .. (width * height - 1) : writes[s] = 1
        /\ FrameLen(frame) = width * height * 4

\* C2: the world vector render computes for canvas coordinate (cx, cy) is
\* (cx * viewport.width / canvas.width, cy * viewport.height / canvas.height,
\* viewport.depth).
C2_CanvasToWorld ==
    viewport_coord # NoWorld =>
        viewport_coord = [x |-> Rat(coord.x * viewport.width, width),
                          y |-> Rat(coord.y * viewport.height, height),
                          z |-> Rat(viewport.depth, 1)]

\* C3: the screen coordinate put_pixel obtains for canvas coordinate (cx, cy)
\* is OnScreen{width/2 + cx, height/2 - cy} exactly when that position lies
\* in [0,width) x [0,height), and OffScreen otherwise; canvas (0,0) is
\* OnScreen{width/2, height/2}.
C3_CanvasToScreen ==
    rpc = "put" =>
        LET x == (width \div 2) + coord.x
            y == (height \div 2) - coord.y
        IN  /\ (0 <= x /\ x < width /\ 0 <= y /\ y < height)
                   => screen_coord = [tag |-> "OnScreen", x |-> x, y |-> y]
            /\ ~(0 <= x /\ x < width /\ 0 <= y /\ y < height)
                   => screen_coord = [tag |-> "OffScreen"]
            /\ (coord.x = 0 /\ coord.y = 0)
                   => screen_coord = [tag |-> "OnScreen", x |-> width \div 2,
                                      y |-> height \div 2]

\* C3 witness: a coordinate above the centre lands on a row above the middle
C3_Witness ==
    /\ rpc = "put" /\ width = 3 /\ height = 3
    /\ coord = [x |-> 1, y |-> 1]
    /\ screen_coord = [tag |-> "OnScreen", x |-> 2, y |-> 0]

\* C4: a put_pixel call whose coordinate converts to OnScreen{x, y} replaces
\* exactly the bytes (y*width+x)*4 .. (y*width+x)*4+3 by the color and keeps
\* every other byte; one whose coordinate converts to OffScreen keeps the
\* whole frame; neither fails.
C4_PutPixelFrame ==
    [][rpc' = "put" =>
         /\ ~panicked'
         /\ DOMAIN frame' = DOMAIN frame
         /\ IF screen_coord'.tag = "OnScreen"
            THEN LET base == (screen_coord'.y * width + screen_coord'.x) * 4
                 IN  \A i \in DOMAIN frame :
                        frame'[i] = IF i \in base .. (base + 3)
                                    THEN color'[i - base + 1]
                                    ELSE frame[i]
            ELSE frame' = frame]_vars

\* C4 witness: a pixel written into a used frame, the bytes around it kept
C4_Witness ==
    /\ rpc = "put" /\ width = 2 /\ height = 2
    /\ screen_coord = [tag |-> "OnScreen", x |-> 1, y |-> 0]
    /\ color = GREEN
    /\ \A i \in 4 .. 7 : frame[i] = GREEN[i - 3]
    /\ \A i \in (0 .. 3) \cup (8 .. 15) : frame[i] = (i % 7) + 1

(***************************************************************************)
(* What the claims about from_raw read off a raw definition and a message. *)
(***************************************************************************)
HasKey(as, k) == \E i \in DOMAIN as : as[i].name = k

\* the value of the last assignment to k
LastValue(as, k) ==
    as[CHOOSE i \in DOMAIN as :
         as[i].name = k /\ \A j \in DOMAIN as : j > i => as[j].name # k].value

ShapeOf(k) ==
    CASE k \in {Str("type"), Str("title")} -> "VString"
      [] k \in {Str("intensity"), Str("radius"), Str("width"), Str("height")} -> "Num"
      [] OTHER -> "Tuple"

\* every assignment has a key of the kind and a value of the key's shape
WellFormed(as, keys) ==
    \A i \in DOMAIN as : as[i].name \in keys /\ as[i].value.kind = ShapeOf(as[i].name)

\* the key names the text of a format string holds
KeysInFormat(fmt) ==
    CASE fmt = "Sphere definitions require [color, center, radius] but some values are missing"
            -> SphereKeys
      [] fmt = "Expected properties: [color, center, radius] but got: '{}'" -> SphereKeys
      [] fmt = "Expected properties: [width, height, title] but got: '{}'" -> WindowKeys
      [] fmt = "Expected properties: [type, intensity, position, direction] but got: '{}'"
            -> LightKeys
      [] fmt = "light definitions require a type and an intensity"
            -> {Str("type"), Str("intensity")}
      [] fmt = "Only type and intensity are supported for ambient lights"
            -> {Str("type"), Str("intensity")}
      [] fmt = "point lights require a position" -> {Str("position")}
      [] fmt = "point lights do not support the direction property" -> {Str("direction")}
      [] fmt = "directional lights require a direction" -> {Str("direction")}
      [] fmt = "directional lights do not support the position property"
            -> {Str("position")}
      [] OTHER -> {}

\* the names a message holds: in its text or as an argument
NamedIn(m) == KeysInFormat(m.fmt) \cup {m.args[i] : i \in DOMAIN m.args}

\* C5: a light block of well-shaped light keys is accepted only with a type
\* and an intensity; ambient iff neither position nor direction is present
\* (AmbientLight), point iff position is present and direction absent
\* (PointLight), directional iff direction is present and position absent
\* (DirectionLight); any other type, and every other block, is an error.
C5_LightValidation ==
    (vpc = "done" /\ raw.def_type = Str("light")) =>
        LET as == raw.assignments
            has(k) == HasKey(as, Str(k))
            kind == LastValue(as, Str("type")).s
            intensity == LastValue(as, Str("intensity")).n
        IN  /\ vresult.ok => (has("type") /\ has("intensity"))
            /\ ~WellFormed(as, LightKeys) => ~vresult.ok
            /\ (WellFormed(as, LightKeys) /\ has("type") /\ has("intensity")) =>
                 /\ kind = Str("ambient") =>
                      /\ vresult.ok <=> (~has("position") /\ ~has("direction"))
                      /\ vresult.ok => Unwrap(vresult) = AmbientLight(intensity)
                 /\ kind = Str("point") =>
                      /\ vresult.ok <=> (has("position") /\ ~has("direction"))
                      /\ vresult.ok =>
                           Unwrap(vresult) =
                             PointLight(intensity, LastValue(as, Str("position")).t)
                 /\ kind = Str("directional") =>
                      /\ vresult.ok <=> (has("direction") /\ ~has("position"))
                      /\ vresult.ok =>
                           Unwrap(vresult) =
                             DirectionLight(intensity, LastValue(as, Str("direction")).t)
                 /\ kind \notin {Str("ambient"), Str("point"), Str("directional")} =>
                      ~vresult.ok

\* C5 witness: a point light with position and direction is refused
C5_Witness ==
    /\ vpc = "done" /\ raw.def_type = Str("light")
    /\ WellFormed(raw.assignments, LightKeys)
    /\ HasKey(raw.assignments, Str("type"))
    /\ LastValue(raw.assignments, Str("type")).s = Str("point")
    /\ HasKey(raw.assignments, Str("intensity"))
    /\ HasKey(raw.assignments, Str("position"))
    /\ HasKey(raw.assignments, Str("direction"))
    /\ ~vresult.ok

\* C6: a sphere block of well-shaped sphere keys is accepted iff color, center
\* and radius are all present; without one of them the result is an error
\* whose message names the missing key, and no Definition.
C6_SphereValidation ==
    (vpc = "done" /\ raw.def_type = Str("sphere")
       /\ WellFormed(raw.assignments, SphereKeys)) =>
        LET as == raw.assignments
        IN  /\ vresult.ok <=> \A k \in SphereKeys : HasKey(as, k)
            /\ vresult.ok =>
                 Unwrap(vresult) = Sphere(LastValue(as, Str("color")).t,
                                          LastValue(as, Str("center")).t,
                                          LastValue(as, Str("radius")).n)
            /\ ~vresult.ok =>
                 /\ vresult.v = <<>>
                 /\ \A k \in SphereKeys : ~HasKey(as, k) => k \in NamedIn(vresult.err)

\* C6 witness: a sphere with a color and a center and no radius is refused
C6_Witness ==
    /\ vpc = "done" /\ raw.def_type = Str("sphere")
    /\ WellFormed(raw.assignments, SphereKeys)
    /\ HasKey(raw.assignments, Str("color"))
    /\ HasKey(raw.assignments, Str("center"))
    /\ ~HasKey(raw.assignments, Str("radius"))
    /\ ~vresult.ok
    /\ Str("radius") \in NamedIn(vresult.err)

(***************************************************************************)
(* What the claims about parse read off the raw definitions.               *)
(***************************************************************************)
KnownKind(kind) == kind \in {Str("window"), Str("light"), Str("sphere")}

KeysOf(kind) ==
    CASE kind = Str("window") -> WindowKeys
      [] kind = Str("light") -> LightKeys
      [] kind = Str("sphere") -> SphereKeys
      [] OTHER -> {}

\* the block has an unknown kind, a key its kind does not allow or a value of
\* the wrong shape for its key
Offends(r) ==
    ~KnownKind(r.def_type) \/ ~WellFormed(r.assignments, KeysOf(r.def_type))

\* the kind, or the first property, the block offends with
Offender(r) ==
    IF ~KnownKind(r.def_type)
    THEN r.def_type
    ELSE LET as == r.assignments
             bad(i) == ~WellFormed(<<as[i]>>, KeysOf(r.def_type))
         IN  as[CHOOSE i \in DOMAIN as : bad(i) /\ \A j \in 1 .. (i - 1) : ~bad(j)].name

\* the rules of the kinds (spec 4.2)
Accepted(r) ==
    LET as == r.assignments
    IN  /\ KnownKind(r.def_type)
        /\ WellFormed(as, KeysOf(r.def_type))
        /\ r.def_type = Str("sphere") => \A k \in SphereKeys : HasKey(as, k)
        /\ r.def_type = Str("light") =>
             /\ HasKey(as, Str("type")) /\ HasKey(as, Str("intensity"))
             /\ LET kind == LastValue(as, Str("type")).s
                    pos == HasKey(as, Str("position"))
                    dir == HasKey(as, Str("direction"))
                IN  \/ kind = Str("ambient") /\ ~pos /\ ~dir
                    \/ kind = Str("point") /\ pos /\ ~dir
                    \/ kind = Str("directional") /\ dir /\ ~pos

\* the first definition of the text that breaks a rule
FirstRefused(defs) ==
    CHOOSE i \in DOMAIN defs :
        ~Accepted(defs[i]) /\ \A j \in 1 .. (i - 1) : Accepted(defs[j])

C8_ErrorTokenIsFatal ==
    (ppc = "done" /\ \E i \in DOMAIN src : src[i] = Error) => ~result.ok

\* C8 witness: an Error token after an accepted block
C8_Witness ==
    /\ ppc = "done"
    /\ Len(definitions) = 1 /\ Accepted(definitions[1])
    /\ src[Len(src)] = Error
    /\ ~result.ok

\* C9: when parse has returned and a block of the input breaks a rule of its
\* kind, parse returned the error of the first such block, whatever follows
\* the block in the text.
C9_FirstErrorInInputOrder ==
    (ppc = "done" /\ \E i \in DOMAIN definitions : ~Accepted(definitions[i])) =>
        /\ ~result.ok
        /\ result.err = from_raw(definitions[FirstRefused(definitions)]).err

\* a slice of the form: optional minus, digits, optionally a literal point and
\* more digits
IsNumberLiteral(slice) ==
    LET q == IF slice # <<>> /\ slice[1] = "-" THEN 1 ELSE 0
        d1 == Run(slice, q, Digits, TRUE)
        r == q + d1
    IN  /\ d1 > 0
        /\ \/ r = Len(slice)
           \/ /\ r < Len(slice)
              /\ At(slice, r) = "."
              /\ Run(slice, r + 1, Digits, TRUE) > 0
              /\ r + 1 + Run(slice, r + 1, Digits, TRUE) = Len(slice)

\* a slice that starts as a number does: a digit, or a minus and a digit
StartsNumber(slice) ==
    \/ slice[1] \in Digits
    \/ Len(slice) > 1 /\ slice[1] = "-" /\ slice[2] \in Digits

\* C10: when the lexer has returned all tokens of the text, a token is a Number
\* exactly when its slice is an optional minus, digits and optionally a
\* literal point and more digits: a slice that starts as a number is a Number
\* of that form, so digits that another character separates, as the digits
\* the comma separates in a tuple, are tokens of their own.
C10_NumberIsLiteralForm ==
    lpc = "done" =>
      \A i \in DOMAIN tokens :
        /\ tokens[i].t = "Number" => IsNumberLiteral(spans[i])
        /\ StartsNumber(spans[i]) =>
             tokens[i].t = "Number" /\ IsNumberLiteral(spans[i])

\* the number of characters of the text before token i: the blanks the lexer
\* skips lie between the tokens
RECURSIVE TokenStart(_)
TokenStart(i) ==
    SkipBlanks(text, IF i = 1 THEN 0 ELSE TokenStart(i - 1) + Len(spans[i - 1]))

\* a line of the text starts after its first p characters
LineStart(p) == p = 0 \/ text[p] = "\n"

\* the slice is one whole line from its first character on: it has no line
\* feed but as its last character, and without one it ends the text
WholeLine(i) ==
    LET sl == spans[i]
    IN  /\ \A j \in 1 .. (Len(sl) - 1) : sl[j] # "\n"
        /\ sl[Len(sl)] = "\n" \/ TokenStart(i) + Len(sl) = Len(text)

\* C11: when the lexer has returned all tokens of the text, every token that
\* starts a line with '#' is a NewLine token and its slice is the whole line,
\* also on a last line that no line feed follows: a comment line is never an
\* Error token and never more than one token.
C11_CommentLineIsOneNewLine ==
    lpc = "done" =>
      \A i \in DOMAIN tokens :
        (spans[i][1] = "#" /\ LineStart(TokenStart(i))) =>
            tokens[i].t = "NewLine" /\ WholeLine(i)

\* min(255, floor(c * s)) for a channel c and a scalar s >= 0
SaturatedProduct(c, s) ==
    LET fl == (c * s[1]) \div s[2]
    IN  IF fl > 255 THEN 255 ELSE fl

\* C12: when Color::scale has returned for a scalar s >= 0, each of the four
\* channels of the result, alpha as well, is min(255, floor(c * s)) of its
\* input channel c, and for s >= 1 no channel is lower than its input.
C12_ScaleSaturates ==
    (spc = "done" /\ scalar[1] >= 0) =>
      \A ch \in 1 .. 4 :
        /\ scale_result[ch] = SaturatedProduct(scale_self[ch], scalar)
        /\ scalar[1] >= scalar[2] => scale_result[ch] >= scale_self[ch]

\* C12 witness: a channel of 200 scaled by 2 is 255
C12_Witness ==
    /\ spc = "done"
    /\ scalar = <<2, 1>>
    /\ scale_self[1] = 200 /\ scale_result[1] = 255
    /\ scale_self[4] = 100 /\ scale_result[4] = 200

\* the light vector of a light at a point: the direction of a directional
\* light, position - point of a point light
LightVector(l, p) ==
    IF l.tag = "Direction" THEN l.v
    ELSE World(RSub(l.v.x, p.x), RSub(l.v.y, p.y), RSub(l.v.z, p.z))

InnerProduct(a, b) ==
    RAdd(RMul(a.x, b.x), RAdd(RMul(a.y, b.y), RMul(a.z, b.z)))

\* the two vectors point the same way
Parallel(a, b) ==
    /\ RLess(Zero, InnerProduct(a, b))
    /\ RMul(a.x, b.y) = RMul(a.y, b.x)
    /\ RMul(a.x, b.z) = RMul(a.z, b.x)
    /\ RMul(a.y, b.z) = RMul(a.z, b.y)

\* the length of the vector is a rational number
RationalLength(a) ==
    LET q == InnerProduct(a, a)
    IN  \E n \in 0 .. q[1], d \in 1 .. q[2] : n * n = q[1] /\ d * d = q[2]

\* what the light is to give at the point p of a surface with normal n
Contribution(l, p, n) ==
    LET lv == LightVector(l, p)
        nl == InnerProduct(n, lv)
    IN  IF l.tag = "Ambient" THEN l.intensity
        ELSE IF RLeq(nl, Zero) THEN Zero
        ELSE IF Parallel(n, lv) /\ RationalLength(n) /\ RationalLength(lv)
        THEN l.intensity
        ELSE RDiv(RMul(l.intensity, nl),
                  RMul(sqrt(InnerProduct(n, n)), sqrt(InnerProduct(lv, lv))))

RECURSIVE SumOfContributions(_, _, _)
SumOfContributions(ls, p, n) ==
    IF ls = <<>> THEN Zero
    ELSE RAdd(SumOfContributions(SubSeq(ls, 1, Len(ls) - 1), p, n),
              Contribution(ls[Len(ls)], p, n))

AllRoots == [i \in 1 .. Len(spheres) |-> intersect_ray(spheres[i], camera_position, ray)]

\* t is a root within the range of the ray
InRange(t) == ~IsInf(t) /\ RLeq(t_min, t) /\ RLeq(t, t_max)

\* the roots in range: root k of sphere i
Hits(rs) == {h \in (DOMAIN rs) \X {1, 2} : InRange(rs[h[1]][h[2]])}

\* the smallest of the roots in range
Smallest(rs, hits) ==
    LET h == CHOOSE h \in hits : \A g \in hits : RLeq(rs[h[1]][h[2]], rs[g[1]][g[2]])
    IN  rs[h[1]][h[2]]

\* the first sphere of the list that owns the root t
Owner(rs, t) ==
    CHOOSE i \in DOMAIN rs :
        /\ t \in {rs[i][1], rs[i][2]}
        /\ \A j \in 1 .. (i - 1) : t \notin {rs[j][1], rs[j][2]}

\* C13: when trace_ray has returned, the sphere selected is the one that owns
\* the smallest root among all t1, t2 with t_min <= t <= t_max, the one
\* earlier in the list when two spheres own an equal smallest root, and its
\* color is what is scaled; when no sphere has a root in range, spheres the
\* ray misses among them, the result is the background color of the scene.
C13_NearestSphereOrBackground ==
    tpc = "done" /\ lights \in LightListsTried =>
        LET rs == AllRoots
            hits == Hits(rs)
        IN  IF hits = {}
            THEN closest_sphere = None /\ traced = background_color
            ELSE LET t == Smallest(rs, hits)
                     own == Owner(rs, t)
                 IN  /\ closest_sphere = Some(own)
                     /\ closest_t = t
                     /\ traced = scale(spheres[own].color, light_intensity)

\* C13 witness: two spheres with the same nearest root 4: the first is taken
C13_Witness ==
    /\ tpc = "done"
    /\ camera_position = WorldInt(0, 0, 0) /\ ray = WorldInt(0, 0, 1)
    /\ t_min = RInt(1) /\ t_max = Inf
    /\ spheres = <<NewSphere(RInt(1), WorldInt(0, 0, 5), RED),
                   NewSphere(RInt(2), WorldInt(0, 0, 6), GREEN)>>
    /\ closest_sphere = Some(1)
    /\ closest_t = RInt(4)
    /\ lights = <<Ambient(Half)>>
    /\ traced = <<127, 0, 0, 127>>

\* the roots of a * t^2 + b * t + c = 0 for the sphere s, with co = camera -
\* center, a = d.d, b = 2 (co.d), c = co.co - r * r: a miss when the
\* discriminant is negative, else (-b + root) / 2a and (-b - root) / 2a
QuadraticRoots(s) ==
    LET co == World(RSub(camera_position.x, s.center.x),
                    RSub(camera_position.y, s.center.y),
                    RSub(camera_position.z, s.center.z))
        a == InnerProduct(ray, ray)
        b == RMul(RInt(2), InnerProduct(co, ray))
        c == RSub(InnerProduct(co, co), RMul(s.radius, s.radius))
        disc == RSub(RMul(b, b), RMul(RInt(4), RMul(a, c)))
        two_a == RMul(RInt(2), a)
    IN  IF RLess(disc, Zero) THEN <<Inf, Inf>>
        ELSE <<RDiv(RAdd(RNeg(b), sqrt(disc)), two_a),
               RDiv(RSub(RNeg(b), sqrt(disc)), two_a)>>

\* camera (0,0,0), center (0,0,5), radius 1, direction (0,0,1)
IsTheExample(s) ==
    /\ camera_position = WorldInt(0, 0, 0)
    /\ ray = WorldInt(0, 0, 1)
    /\ s.center = WorldInt(0, 0, 5)
    /\ s.radius = RInt(1)

\* C15: what intersect_ray returned for the sphere trace_ray took last is the
\* pair of roots t1 = (-b + sqrt(disc)) / 2a, t2 = (-b - sqrt(disc)) / 2a, and
\* a miss when disc < 0; for camera (0,0,0), center (0,0,5), radius 1 and
\* direction (0,0,1) it is (6, 4), and with that sphere alone the nearest hit
\* in [1, inf) is t = 4.
C15_IntersectRoots ==
    (tpc \in {"loop", "done"} /\ sphere_i >= 1 /\ lights \in LightListsTried) =>
        /\ roots = QuadraticRoots(spheres[sphere_i])
        /\ IsTheExample(spheres[sphere_i]) => roots = <<RInt(6), RInt(4)>>
        /\ (/\ tpc = "done" /\ Len(spheres) = 1 /\ IsTheExample(spheres[1])
            /\ t_min = RInt(1) /\ t_max = Inf) => closest_t = RInt(4)

\* C15 witness: the example, traced to its end
C15_Witness ==
    /\ tpc = "done" /\ Len(spheres) = 1 /\ IsTheExample(spheres[1])
    /\ t_min = RInt(1) /\ t_max = Inf
    /\ roots = <<RInt(6), RInt(4)>>
    /\ closest_t = RInt(4)
    /\ point = WorldInt(0, 0, 4)

\* C16: after a put_pixel call of main.rs on a canvas coordinate whose screen
\* position (width/2 + cx, height/2 + cy) is outside [0,width) x [0,height),
\* x = width and y = height included, the conversion gave OffScreen, no slice
\* of the frame was out of range and no byte of the frame has changed.
C16_MainOffScreenOutsideFrame ==
    rpc = "put" =>
        LET x == (width \div 2) + coord.x
            y == (height \div 2) + coord.y
        IN  ~(0 <= x /\ x < width /\ 0 <= y /\ y < height) =>
                /\ screen_coord = [tag |-> "OffScreen"]
                /\ ~panicked
                /\ frame \in {BlankFrame(width, height), UsedFrame(width, height)}

\* the canvas coordinates of the canvas: x in [-width/2, width/2) and y in
\* [-height/2, height/2), the divisions those of integers
CanvasRange ==
    {[x |-> x, y |-> y] : x \in (-(width \div 2)) .. ((width \div 2) - 1),
                          y \in (-(height \div 2)) .. ((height \div 2) - 1)}

\* a comes before b in the scan: rows by ascending y, x ascending in a row
ScansBefore(a, b) == a.y < b.y \/ (a.y = b.y /\ a.x < b.x)

\* C17: the coordinates next has returned are coordinates of the range of the
\* canvas, each once, in scan order; when next has returned None it has
\* returned every coordinate of the range before, and it returns None from
\* then on.
C17_IteratorCoversRange ==
    ipc = "next" =>
        /\ \A i \in DOMAIN yielded : yielded[i] \in CanvasRange
        /\ \A i, j \in DOMAIN yielded : i < j => ScansBefore(yielded[i], yielded[j])
        /\ nones > 0 =>
             /\ iter.finished
             /\ {yielded[i] : i \in DOMAIN yielded} = CanvasRange

\* a step of parse itself: the buffer is what it was
ParserStep == src' = src /\ eof' = eof /\ ppc # "done"

\* C18: parse terminates: the cursor never exceeds the number of tokens and
\* never decreases; a turn of the loop of parse and a turn of the loop of
\* parse_raw_definition go on only to a step that consumes a token or returns;
\* and parse ends with Ok or Err.
C18_ParseTerminates ==
    /\ [](position <= Len(src))
    /\ [][position' >= position]_vars
    /\ [][(ParserStep /\ ppc = "top") => ppc' \in {"validate", "def_type"}]_vars
    /\ [][(ParserStep /\ ppc = "def_loop") =>
             \/ position' > position
             \/ ppc' = "done"
             \/ ppc' = "asg_name" /\ peek(src, position)[1].t = "Identifier"]_vars
    /\ [][(ParserStep /\ ppc \in {"def_type", "asg_name"}) =>
             position' > position \/ ppc' = "done"]_vars
    /\ <>(ppc = "done" /\ result # NoResult)

\* C18 witness: parse has ended with Ok after a definition of two assignments
\* and the newlines behind it, the cursor at the end of the buffer
C18_Witness ==
    /\ ppc = "done"
    /\ result.ok
    /\ Len(definitions) = 1
    /\ Len(definitions[1].assignments) = 2
    /\ eof /\ position = Len(src)
    /\ src[Len(src)] = NewLine

====
